---- MODULE Spec2Model ----
(***************************************************************************)
(* Model of the OrbitiveXR backend (src/backend/main.py): the list codec   *)
(* (serialize_list / deserialize_list), the scorer (calculate_match_score) *)
(* and the request handlers create_campaign, create_designer and           *)
(* match_designers over the two SQLite tables.                             *)
(*                                                                         *)
(* Python values are tagged records [t, n, s, l]: t is the type tag, n the *)
(* number, s the text (a sequence of one-character strings), l the list.   *)
(* Real numbers (REAL columns, floats) are fixed-point, counted in tenths: *)
(* 99.0 is 990 and performance_score 0.8 is 8.  A raised exception is a    *)
(* value whose tag is the exception's name.                                *)
(***************************************************************************)
EXTENDS Integers, Sequences, FiniteSets, TLC

(***************************************************************************)
(* Bounds                                                                  *)
(***************************************************************************)
MaxTextLen == 4
MaxCampaigns == 1
MaxDesigners == 2
MaxChanged == 3

(***************************************************************************)
(* Python values                                                           *)
(***************************************************************************)
Tenths == 10

PNone == [t |-> "none", n |-> 0, s |-> <<>>, l |-> <<>>]
PNum(x) == [t |-> "num", n |-> x, s |-> <<>>, l |-> <<>>]
PStr(x) == [t |-> "str", n |-> 0, s |-> x, l |-> <<>>]
PList(x) == [t |-> "list", n |-> 0, s |-> <<>>, l |-> x]
PBool(b) == [t |-> "bool", n |-> IF b THEN 1 ELSE 0, s |-> <<>>, l |-> <<>>]
\* float("nan"), which a float field of a request body accepts
PNaN == [t |-> "nan", n |-> 0, s |-> <<>>, l |-> <<>>]
Raise(exc) == [t |-> exc, n |-> 0, s |-> <<>>, l |-> <<>>]

Exceptions == {"KeyError", "TypeError", "ValueError"}
IsRaised(v) == v.t \in Exceptions

\* The characters texts are made of.  No character of this universe starts
\* a JSON literal other than a string, an array or an unsigned integer, and
\* the only escapes it can spell are \" and \\.
Quote == "\""
Backslash == "\\"
Digits == {"0", "1", "2"}
Whitespace == {" "}
Chars == {"[", "]", Quote, Backslash, ",", " ", "a", "A", "c"} \cup Digits

DigitVal(c) == CASE c = "0" -> 0 [] c = "1" -> 1 [] c = "2" -> 2

\* Code points, for the lexicographic order of str.
Ord(c) ==
  CASE c = " " -> 32 [] c = Quote -> 34 [] c = "," -> 44
    [] c = "0" -> 48 [] c = "1" -> 49 [] c = "2" -> 50
    [] c = "A" -> 65 [] c = "[" -> 91 [] c = Backslash -> 92
    [] c = "]" -> 93 [] c = "a" -> 97 [] c = "c" -> 99

IsStrList(v) == v.t = "list" /\ \A k \in 1..Len(v.l) : v.l[k].t = "str"

(***************************************************************************)
(* json.dumps, for a str or a list (of lists) of str                       *)
(***************************************************************************)
\* Faulty variant: the text written between the quotes as it is.
EscapeTextRaw(s) == s

RECURSIVE EscapeText(_)
EscapeText(s) ==
  IF s = <<>> THEN <<>>
  ELSE (IF Head(s) \in {Quote, Backslash} THEN <<Backslash, Head(s)>>
        ELSE <<Head(s)>>) \o EscapeText(Tail(s))

RECURSIVE JsonDumps(_)
RECURSIVE DumpItems(_)
DumpItems(l) ==
  IF l = <<>> THEN <<>>
  ELSE IF Len(l) = 1 THEN JsonDumps(l[1])
  ELSE JsonDumps(l[1]) \o <<",", " ">> \o DumpItems(Tail(l))

JsonDumps(v) ==
  IF v.t = "str" THEN <<Quote>> \o EscapeText(v.s) \o <<Quote>>
  ELSE <<"[">> \o DumpItems(v.l) \o <<"]">>

(***************************************************************************)
(* json.loads: the decoder's scanner, by position in the text.  A result   *)
(* is [ok, v, i]: whether a value was scanned, the value, and the index    *)
(* after it.                                                               *)
(***************************************************************************)
NoParse == [ok |-> FALSE, v |-> PNone, i |-> 0]
Parsed(v, i) == [ok |-> TRUE, v |-> v, i |-> i]

RECURSIVE SkipWs(_, _)
SkipWs(s, i) ==
  IF i <= Len(s) /\ s[i] \in Whitespace THEN SkipWs(s, i + 1) ELSE i

\* i is the index after the opening quote; acc the text decoded so far.
RECURSIVE ScanString(_, _, _)
ScanString(s, i, acc) ==
  IF i > Len(s) THEN NoParse
  ELSE IF s[i] = Quote THEN Parsed(PStr(acc), i + 1)
  ELSE IF s[i] = Backslash THEN
    IF i + 1 <= Len(s) /\ s[i + 1] \in {Quote, Backslash}
    THEN ScanString(s, i + 2, Append(acc, s[i + 1]))
    ELSE NoParse
  ELSE ScanString(s, i + 1, Append(acc, s[i]))

\* NUMBER_RE: (0|[1-9]\d*); i is the index of the first digit.
RECURSIVE ScanDigits(_, _, _)
ScanDigits(s, i, acc) ==
  IF i <= Len(s) /\ s[i] \in Digits
  THEN ScanDigits(s, i + 1, acc * 10 + DigitVal(s[i]))
  ELSE Parsed(PNum(acc * Tenths), i)

ScanNumber(s, i) ==
  IF s[i] = "0" THEN Parsed(PNum(0), i + 1) ELSE ScanDigits(s, i, 0)

RECURSIVE ScanOnce(_, _)
RECURSIVE ScanArrayItems(_, _, _)
\* i is the index of the next item; acc the items decoded so far.
ScanArrayItems(s, i, acc) ==
  LET r == ScanOnce(s, i) IN
  IF ~r.ok THEN NoParse
  ELSE LET j == SkipWs(s, r.i) IN
    IF j > Len(s) THEN NoParse
    ELSE IF s[j] = "]" THEN Parsed(PList(Append(acc, r.v)), j + 1)
    ELSE IF s[j] = "," THEN ScanArrayItems(s, SkipWs(s, j + 1), Append(acc, r.v))
    ELSE NoParse

\* i is the index after the opening bracket.
ScanArray(s, i) ==
  LET j == SkipWs(s, i) IN
  IF j <= Len(s) /\ s[j] = "]" THEN Parsed(PList(<<>>), j + 1)
  ELSE ScanArrayItems(s, j, <<>>)

ScanOnce(s, i) ==
  IF i > Len(s) THEN NoParse
  ELSE IF s[i] = Quote THEN ScanString(s, i + 1, <<>>)
  ELSE IF s[i] = "[" THEN ScanArray(s, i + 1)
  ELSE IF s[i] \in Digits THEN ScanNumber(s, i)
  ELSE NoParse

\* json.loads(s): one value, surrounded by whitespace only; ValueError
\* (JSONDecodeError) otherwise.
JsonLoads(s) ==
  LET r == ScanOnce(s, SkipWs(s, 1)) IN
  IF r.ok /\ SkipWs(s, r.i) = Len(s) + 1 THEN r.v ELSE Raise("ValueError")

(***************************************************************************)
(* The list codec                                                          *)
(***************************************************************************)
RECURSIVE LStrip(_)
LStrip(s) == IF s # <<>> /\ Head(s) \in Whitespace THEN LStrip(Tail(s)) ELSE s

RECURSIVE RStrip(_)
RStrip(s) ==
  IF s # <<>> /\ s[Len(s)] \in Whitespace THEN RStrip(SubSeq(s, 1, Len(s) - 1)) ELSE s

Strip(s) == RStrip(LStrip(s))

serialize_list(items) ==
  IF items.t # "none" THEN JsonDumps(items) ELSE JsonDumps(PList(<<>>))

deserialize_list(data) ==
  IF data.t = "none" THEN PList(<<>>)
  ELSE IF data.t = "list" THEN data
  ELSE IF data.t = "str" THEN
    LET stripped == Strip(data.s) IN
    IF stripped = <<>> THEN PList(<<>>)
    ELSE LET decoded == JsonLoads(stripped) IN
      IF IsRaised(decoded) THEN PList(<<>>) ELSE decoded
  ELSE PList(<<>>)

(***************************************************************************)
(* Python operators on values                                              *)
(***************************************************************************)
\* bool(v)
Truthy(v) ==
  CASE v.t = "none" -> FALSE
    [] v.t \in {"num", "bool"} -> v.n # 0
    [] v.t = "str" -> v.s # <<>>
    [] v.t = "list" -> v.l # <<>>

\* a <= b on str: lexicographic, by code point.
RECURSIVE StrLessEq(_, _)
StrLessEq(a, b) ==
  IF a = <<>> THEN TRUE
  ELSE IF b = <<>> THEN FALSE
  ELSE IF Head(a) = Head(b) THEN StrLessEq(Tail(a), Tail(b))
  ELSE Ord(Head(a)) < Ord(Head(b))

\* a <= b: a bool, or TypeError for operands that are not both numbers or
\* both str (lists are never compared by the code).
LessEq(a, b) ==
  IF a.t = "num" /\ b.t = "num" THEN PBool(a.n <= b.n)
  ELSE IF a.t = "str" /\ b.t = "str" THEN PBool(StrLessEq(a.s, b.s))
  ELSE Raise("TypeError")

\* a >= b
GreaterEq(a, b) == LessEq(b, a)

IsSubstring(x, s) ==
  \E k \in 0..(Len(s) - Len(x)) : SubSeq(s, k + 1, k + Len(x)) = x

\* x in c: membership in a list, substring of a str, TypeError otherwise.
Contains(x, c) ==
  IF c.t = "list" THEN PBool(\E k \in 1..Len(c.l) : c.l[k] = x)
  ELSE IF c.t = "str" THEN
    IF x.t = "str" THEN PBool(IsSubstring(x.s, c.s)) ELSE Raise("TypeError")
  ELSE Raise("TypeError")

\* float(v): of a number, or of a text of digits.
RECURSIVE DigitsValue(_, _)
DigitsValue(s, acc) ==
  IF s = <<>> THEN acc ELSE DigitsValue(Tail(s), acc * 10 + DigitVal(Head(s)))

ToFloat(v) ==
  IF v.t = "num" THEN v
  ELSE IF v.t = "str" THEN
    LET stripped == Strip(v.s) IN
    IF stripped # <<>> /\ \A k \in 1..Len(stripped) : stripped[k] \in Digits
    THEN PNum(DigitsValue(stripped, 0) * Tenths)
    ELSE Raise("ValueError")
  ELSE Raise("TypeError")

\* d[k] and d.get(k) on a dict, a function from its keys.
Subscript(d, k) == IF k \in DOMAIN d THEN d[k] ELSE Raise("KeyError")
Get(d, k) == IF k \in DOMAIN d THEN d[k] ELSE PNone

(***************************************************************************)
(* The scorer.  Each criterion is the points it adds (in tenths), or the   *)
(* exception its evaluation raises.                                        *)
(***************************************************************************)
BudgetWeight == 20 * Tenths
AmbianceWeight == 20 * Tenths
PlatformWeight == 15 * Tenths
InteractivityWeight == 15 * Tenths
StyleWeight == 15 * Tenths
TimelineWeight == 10 * Tenths
PerformanceFactor == 5

\* if test: score += weight, where test is a bool or a raised exception
AddIf(test, weight) ==
  IF IsRaised(test) THEN test ELSE PNum(IF Truthy(test) THEN weight ELSE 0)

BudgetPoints(campaign, designer) ==
  LET rate == Subscript(designer, "rate_tier") IN
  IF IsRaised(rate) THEN rate
  ELSE IF rate.t = "none" THEN PNum(0)
  ELSE LET budget == Subscript(campaign, "budget") IN
    IF IsRaised(budget) THEN budget
    ELSE AddIf(GreaterEq(budget, rate), BudgetWeight)

\* campaign.get(ckey) and campaign[ckey] in deserialize_list(designer.get(dkey))
TagPoints(campaign, designer, ckey, dkey, weight) ==
  LET tags == deserialize_list(Get(designer, dkey)) IN
  IF ~Truthy(Get(campaign, ckey)) THEN PNum(0)
  ELSE AddIf(Contains(campaign[ckey], tags), weight)

InteractivityPoints(campaign, designer) ==
  IF Get(designer, "game_logic_experience").t # "none"
     /\ Get(campaign, "interactivity").t # "none"
  THEN AddIf(GreaterEq(designer["game_logic_experience"], campaign["interactivity"]),
             InteractivityWeight)
  ELSE PNum(0)

TimelinePoints(campaign, designer) ==
  IF Truthy(Get(designer, "availability")) /\ Truthy(Get(campaign, "timeline"))
  THEN AddIf(LessEq(designer["availability"], campaign["timeline"]), TimelineWeight)
  ELSE PNum(0)

\* Faulty variant: the bonus capped at 5 points.
PerformancePointsCapped(designer) ==
  IF Truthy(Get(designer, "performance_score"))
  THEN LET f == ToFloat(designer["performance_score"]) IN
    IF IsRaised(f) THEN f
    ELSE PNum(IF f.n > Tenths THEN PerformanceFactor * Tenths ELSE f.n * PerformanceFactor)
  ELSE PNum(0)

PerformancePoints(designer) ==
  IF Truthy(Get(designer, "performance_score"))
  THEN LET f == ToFloat(designer["performance_score"]) IN
    IF IsRaised(f) THEN f ELSE PNum(f.n * PerformanceFactor)
  ELSE PNum(0)

\* The statements of calculate_match_score, in order.
Criteria(campaign, designer) ==
  << BudgetPoints(campaign, designer),
     TagPoints(campaign, designer, "ambiance", "scene_tags", AmbianceWeight),
     TagPoints(campaign, designer, "platform_pref", "export_formats", PlatformWeight),
     InteractivityPoints(campaign, designer),
     TagPoints(campaign, designer, "style", "visual_metadata", StyleWeight),
     TimelinePoints(campaign, designer),
     PerformancePoints(designer) >>

\* The first exception among the statements' outcomes, or their sum.
RECURSIVE Accumulate(_, _)
Accumulate(ps, total) ==
  IF ps = <<>> THEN PNum(total)
  ELSE IF IsRaised(Head(ps)) THEN Head(ps)
  ELSE Accumulate(Tail(ps), total + Head(ps).n)

\* The score, or the first exception raised on the way.
calculate_match_score(campaign, designer) == Accumulate(Criteria(campaign, designer), 0)

(***************************************************************************)
(* State                                                                   *)
(***************************************************************************)
VARIABLES
  pc,          \* the step the run is at / the handler that ran last
  data,        \* codec run: the value handed to deserialize_list
  once,        \* codec run: deserialize_list(data)
  twice,       \* codec run: deserialize_list(once)
  campaign,    \* scorer run: the campaign dict
  designer,    \* scorer run: the designer dict
  score,       \* scorer run: what calculate_match_score returned or raised
  campaigns,   \* table campaigns, rows in id order
  designers,   \* table designers, rows in id order
  submitted,   \* history: the DesignerCreate payload behind each designer row
  computed,    \* history: the scores the last match of a stored campaign computed
  request,     \* the body of the last request
  response     \* the last response

vars == <<pc, data, once, twice, campaign, designer, score, campaigns, designers,
          submitted, computed, request, response>>

codecVars == <<data, once, twice>>
scorerVars == <<campaign, designer, score>>
serviceVars == <<campaigns, designers, submitted, computed, request, response>>

Unset == [t |-> "unset", n |-> 0, s |-> <<>>, l |-> <<>>]
Absent == [t |-> "absent", n |-> 0, s |-> <<>>, l |-> <<>>]
NoRequest == [campaign_id |-> 0, threshold |-> 0]
NoResponse == [status |-> 0, body |-> <<>>]
EmptyMap == [x \in {} |-> 0]
\* campaign: the id of the campaign matched; scores: designer id -> score
NoneComputed == [campaign |-> 0, scores |-> <<>>]

CodecIdle == data = Unset /\ once = Unset /\ twice = Unset
ScorerIdle == campaign = EmptyMap /\ designer = EmptyMap /\ score = Unset
ServiceIdle ==
  /\ campaigns = <<>> /\ designers = <<>> /\ submitted = <<>>
  /\ computed = NoneComputed
  /\ request = NoRequest /\ response = NoResponse

(***************************************************************************)
(* Codec run: deserialize_list applied to a value, then to its own result  *)
(***************************************************************************)
\* All texts of at most n characters.
RECURSIVE Texts(_)
Texts(n) ==
  IF n = 0 THEN {<<>>}
  ELSE LET shorter == Texts(n - 1) IN
    shorter \cup {Append(t, c) : t \in {u \in shorter : Len(u) = n - 1}, c \in Chars}

TagsAC == PList(<<PStr(<<"a">>), PStr(<<"c">>)>>)
TagsQuoted == PList(<<PStr(<<"a", Quote>>), PStr(<<Backslash>>), PStr(<<"a", ",", " ", "c">>)>>)

LongTexts ==
  { JsonDumps(TagsAC), JsonDumps(TagsQuoted),
    JsonDumps(PStr(JsonDumps(TagsAC))),
    <<" ", "[", Quote, "a", Quote, " ", ",", Quote, "c", Quote, "]", " ">>,
    <<"[", "[", Quote, "a", Quote, "]", ",", "1", "]">> }

CodecInputs ==
  {PNone, PNum(50), PBool(TRUE)}
  \cup {PList(<<>>), TagsAC, TagsQuoted, PList(<<PNum(10)>>)}
  \cup {PStr(t) : t \in Texts(MaxTextLen) \cup LongTexts}

InitCodec ==
  /\ pc = "start"
  /\ data \in CodecInputs
  /\ once = Unset /\ twice = Unset
  /\ ScorerIdle /\ ServiceIdle

Normalize ==
  /\ pc = "start"
  /\ once' = deserialize_list(data)
  /\ pc' = "normalized"
  /\ UNCHANGED <<data, twice, scorerVars, serviceVars>>

NormalizeAgain ==
  /\ pc = "normalized"
  /\ twice' = deserialize_list(once)
  /\ pc' = "done"
  /\ UNCHANGED <<data, once, scorerVars, serviceVars>>

NextCodec == Normalize \/ NormalizeAgain

SpecCodec == InitCodec /\ [][NextCodec]_vars

\* C1: whatever value deserialize_list is given, what it returns is a list
\* whose items are all strings.
C1_AlwaysListOfStrings == pc \in {"normalized", "done"} => IsStrList(once)

\* C4: normalizing a normalized value changes nothing:
\* deserialize_list(deserialize_list(x)) = deserialize_list(x).
C4_Idempotent == pc = "done" => twice = once

(***************************************************************************)
(* Scorer run: calculate_match_score applied to one campaign dict and one  *)
(* designer dict.  The dicts are the campaign of the worked example with   *)
(* its designer, or with a designer that meets no criterion, with at most  *)
(* MaxChanged fields replaced by another value, by None, or removed.       *)
(***************************************************************************)
CampaignKeys == {"budget", "ambiance", "platform_pref", "interactivity", "style", "timeline"}
DesignerKeys == {"name", "rate_tier", "scene_tags", "export_formats",
                 "game_logic_experience", "visual_metadata", "availability",
                 "performance_score"}
ListKeys == {"scene_tags", "export_formats", "visual_metadata"}

CampaignBase ==
  [budget |-> PNum(5000), ambiance |-> PStr(<<"a">>), platform_pref |-> PStr(<<"A">>),
   interactivity |-> PNum(30), style |-> PStr(<<"c">>), timeline |-> PStr(<<"2">>)]

TagsAa == PList(<<PStr(<<"A">>), PStr(<<"a">>)>>)
TagsC == PList(<<PStr(<<"c">>)>>)

DesignerBase ==
  [name |-> PStr(<<"a">>), rate_tier |-> PNum(4000), scene_tags |-> TagsAC,
   export_formats |-> TagsAa, game_logic_experience |-> PNum(50),
   visual_metadata |-> TagsC, availability |-> PStr(<<"1">>),
   performance_score |-> PNum(8)]

DesignerNoMatch ==
  [name |-> PStr(<<"a">>), rate_tier |-> PNum(6000), scene_tags |-> PList(<<>>),
   export_formats |-> PList(<<PStr(<<"a">>)>>), game_logic_experience |-> PNum(10),
   visual_metadata |-> PStr(<<" ">>), availability |-> PStr(<<"2", " ">>),
   performance_score |-> PNum(0)]

CampaignChoices ==
  { [budget |-> b, ambiance |-> a, platform_pref |-> p, interactivity |-> i,
     style |-> y, timeline |-> t] :
      b \in {PNum(5000), PNum(4000), PNum(3000), PNone, Absent},
      a \in {PStr(<<"a">>), PStr(<<"A">>), PStr(<<>>), Absent},
      p \in {PStr(<<"A">>), PStr(<<"c">>), PStr(<<>>), PNone},
      i \in {PNum(30), PNum(50), PNum(60), PNone, Absent},
      y \in {PStr(<<"c">>), PStr(<<"a">>), PStr(<<>>), Absent},
      t \in {PStr(<<"2">>), PStr(<<"1">>), PStr(<<"0">>), PStr(<<>>), Absent} }

DesignerChoices ==
  { [name |-> PStr(<<"a">>), rate_tier |-> r, scene_tags |-> st, export_formats |-> ef,
     game_logic_experience |-> g, visual_metadata |-> vm, availability |-> av,
     performance_score |-> ps] :
      r \in {PNum(4000), PNum(6000), PNone, Absent},
      st \in {TagsAC, PStr(JsonDumps(TagsAC)), PList(<<>>), PStr(<<"[", "a">>),
              PStr(<<"1">>), PNone, Absent},
      ef \in {TagsAa, PStr(JsonDumps(TagsAa)), PList(<<PStr(<<"a">>)>>), Absent},
      g \in {PNum(50), PNum(10), PNone, Absent},
      vm \in {TagsC, PStr(JsonDumps(TagsC)), PStr(<<" ">>), Absent},
      av \in {PStr(<<"1">>), PStr(<<"1", "2">>), PStr(<<"2", " ">>), PStr(<<>>), Absent},
      ps \in {PNum(8), PNum(20), PNum(0), PNum(-10), PNone, Absent} }

Changed(rec, base) == Cardinality({k \in DOMAIN base : rec[k] # base[k]})

\* The dict of a choice: a key chosen Absent is not in the dict.
AsDict(choice) == [k \in {j \in DOMAIN choice : choice[j] # Absent} |-> choice[k]]

InputsNear(cbase, dbase) ==
  UNION { {c \in CampaignChoices : Changed(c, cbase) = n[1]}
          \X {d \in DesignerChoices : Changed(d, dbase) = n[2]} :
          n \in {m \in (0..MaxChanged) \X (0..MaxChanged) : m[1] + m[2] <= MaxChanged} }

ScoreInputs ==
  InputsNear(CampaignBase, DesignerBase) \cup InputsNear(CampaignBase, DesignerNoMatch)

InitScore ==
  /\ pc = "start"
  /\ \E in \in ScoreInputs : campaign = AsDict(in[1]) /\ designer = AsDict(in[2])
  /\ score = Unset
  /\ CodecIdle /\ ServiceIdle

Score ==
  /\ pc = "start"
  /\ score' = calculate_match_score(campaign, designer)
  /\ pc' = "scored"
  /\ UNCHANGED <<campaign, designer, codecVars, serviceVars>>

NextScore == Score

SpecScore == InitScore /\ [][NextScore]_vars

(***************************************************************************)
(* The rubric as stated, for comparison with what the scorer returns.  A   *)
(* field is known when its key is in the dict and its value is not None.   *)
(***************************************************************************)
Known(d, k) == k \in DOMAIN d /\ d[k].t # "none"

KnownTagLists == {PList(<<>>), TagsAC, TagsAa, TagsC, TagsQuoted, PList(<<PStr(<<"a">>)>>)}

\* A list attribute is a native list of strings or the text encoding of one.
IsTagList(v) ==
  \/ IsStrList(v)
  \/ v.t = "str" /\ \E tags \in KnownTagLists : v.s = JsonDumps(tags)

\* The list a well-typed list attribute stands for; none when it is unknown.
TagsOf(d, k) ==
  IF ~Known(d, k) THEN <<>>
  ELSE IF d[k].t = "list" THEN d[k].l
  ELSE (CHOOSE tags \in KnownTagLists : d[k].s = JsonDumps(tags)).l

NonEmptyStr(d, k) == Known(d, k) /\ d[k].s # <<>>

TagMatches(c, ckey, d, dkey) ==
  NonEmptyStr(c, ckey) /\ \E k \in 1..Len(TagsOf(d, dkey)) : TagsOf(d, dkey)[k] = c[ckey]

RubricSum(c, d) ==
    (IF Known(c, "budget") /\ Known(d, "rate_tier") /\ c.budget.n >= d.rate_tier.n
     THEN 20 * Tenths ELSE 0)
  + (IF TagMatches(c, "ambiance", d, "scene_tags") THEN 20 * Tenths ELSE 0)
  + (IF TagMatches(c, "platform_pref", d, "export_formats") THEN 15 * Tenths ELSE 0)
  + (IF Known(c, "interactivity") /\ Known(d, "game_logic_experience")
        /\ d.game_logic_experience.n >= c.interactivity.n
     THEN 15 * Tenths ELSE 0)
  + (IF TagMatches(c, "style", d, "visual_metadata") THEN 15 * Tenths ELSE 0)
  + (IF NonEmptyStr(c, "timeline") /\ NonEmptyStr(d, "availability")
        /\ StrLessEq(d.availability.s, c.timeline.s)
     THEN 10 * Tenths ELSE 0)
  + (IF Known(d, "performance_score") THEN d.performance_score.n * 5 ELSE 0)

\* Every field that is known has the type the schema gives it.
KnownFieldsTyped(c, d) ==
  /\ \A k \in {"budget", "interactivity"} : Known(c, k) => c[k].t = "num"
  /\ \A k \in {"ambiance", "platform_pref", "style", "timeline"} : Known(c, k) => c[k].t = "str"
  /\ \A k \in {"rate_tier", "game_logic_experience", "performance_score"} :
       Known(d, k) => d[k].t = "num"
  /\ \A k \in {"name", "availability"} : Known(d, k) => d[k].t = "str"
  /\ \A k \in ListKeys : Known(d, k) => IsTagList(d[k])

AllKnown(c, d) ==
  /\ \A k \in CampaignKeys : Known(c, k)
  /\ \A k \in DesignerKeys : Known(d, k)

WellTyped(c, d) == AllKnown(c, d) /\ KnownFieldsTyped(c, d)

\* C2: when fields are missing from the campaign or the designer (key not
\* there, or None) and the others are well typed, the scorer raises nothing
\* and returns the rubric's sum, the criteria of the missing fields adding 0.
C2_MissingFieldScoresZero ==
  (pc = "scored" /\ KnownFieldsTyped(campaign, designer))
    => score = PNum(RubricSum(campaign, designer))

\* C3: the score is never negative, whatever performance_score is.
C3_ScoreNonNegative ==
  (pc = "scored" /\ WellTyped(campaign, designer)) => score.n >= 0

\* C8: on well-typed dicts with every field present the scorer returns the
\* sum of the rubric: 20, 20, 15, 15, 15, 10 for the criteria met, plus
\* performance_score * 5, uncapped.
C8_ScoreIsRubricSum ==
  (pc = "scored" /\ WellTyped(campaign, designer))
    => score = PNum(RubricSum(campaign, designer))

\* C8 witness: a well-typed pair whose scene_tags is encoded text and whose
\* performance_score is 2.0, scored 20+20+15+15+15+10+10 = 105.0.
C8_Witness ==
  /\ pc = "scored" /\ WellTyped(campaign, designer)
  /\ designer.scene_tags.t = "str"
  /\ designer.performance_score = PNum(20)
  /\ score = PNum(1050)

(***************************************************************************)
(* The service: POST /campaigns, POST /designers, POST /match over the two *)
(* tables.  A table is the sequence of its rows in id order; ids are       *)
(* AUTOINCREMENT and no row is ever deleted, so row k has id k.            *)
(***************************************************************************)
Timestamps == {<<"2">>}
DefaultThreshold == 60 * Tenths
Thresholds == {0, DefaultThreshold, 99 * Tenths}

\* Request bodies that pass validation as CampaignCreate: a campaign asking
\* for the ambiance "\" and the style "a, c", and the same with budget NaN.
CampaignQuoted ==
  [CampaignBase EXCEPT !.ambiance = PStr(<<Backslash>>),
                       !.style = PStr(<<"a", ",", " ", "c">>)]

CampaignPayloads == { CampaignQuoted, [CampaignQuoted EXCEPT !.budget = PNaN] }

\* Request bodies that pass validation as DesignerCreate: a designer whose
\* tags hold a quote, a backslash and a comma; the same, unaffordable; a
\* designer that meets no criterion; and one with rate_tier NaN.
DesignerQuoted ==
  [DesignerBase EXCEPT !.scene_tags = TagsQuoted, !.visual_metadata = TagsQuoted]

DesignerPayloads ==
  { DesignerQuoted,
    [DesignerQuoted EXCEPT !.name = PStr(<<"c">>), !.rate_tier = PNum(6000)],
    [DesignerNoMatch EXCEPT !.visual_metadata = PList(<<>>)],
    [DesignerBase EXCEPT !.rate_tier = PNaN] }

\* What a REAL column keeps of a float: SQLite stores NaN as NULL.
SqlReal(v) == IF v.t = "nan" THEN PNone ELSE v
RealKeys == {"budget", "rate_tier", "performance_score"}

\* dict(row, id=...): the dict with one more key.
WithKey(d, key, v) == [k \in DOMAIN d \cup {key} |-> IF k = key THEN v ELSE d[k]]

\* The row create_campaign inserts for a payload.
CampaignRow(payload, id, now) ==
  [k \in DOMAIN payload \cup {"id", "submitted_at"} |->
     IF k = "id" THEN PNum(id * Tenths)
     ELSE IF k = "submitted_at" THEN PStr(now)
     ELSE IF k \in RealKeys THEN SqlReal(payload[k])
     ELSE payload[k]]

\* The row create_designer inserts for a payload: lists stored as JSON text.
DesignerRow(payload, id) ==
  [k \in DOMAIN payload \cup {"id"} |->
     IF k = "id" THEN PNum(id * Tenths)
     ELSE IF k \in ListKeys THEN PStr(serialize_list(payload[k]))
     ELSE IF k \in RealKeys THEN SqlReal(payload[k])
     ELSE payload[k]]

create_campaign(payload) ==
  /\ Len(campaigns) < MaxCampaigns
  /\ \E now \in Timestamps :
       LET id == Len(campaigns) + 1 IN
       /\ campaigns' = Append(campaigns, CampaignRow(payload, id, now))
       /\ response' =
            [status |-> 201,
             body |-> <<WithKey(WithKey(payload, "submitted_at", PStr(now)),
                                "id", PNum(id * Tenths))>>]
  /\ request' = payload
  /\ pc' = "create_campaign"
  /\ UNCHANGED <<designers, submitted, computed, codecVars, scorerVars>>

create_designer(payload) ==
  /\ Len(designers) < MaxDesigners
  /\ LET id == Len(designers) + 1 IN
       /\ designers' = Append(designers, DesignerRow(payload, id))
       /\ response' = [status |-> 201, body |-> <<WithKey(payload, "id", PNum(id * Tenths))>>]
  /\ submitted' = Append(submitted, payload)
  /\ request' = payload
  /\ pc' = "create_designer"
  /\ UNCHANGED <<campaigns, computed, codecVars, scorerVars>>

\* SELECT * FROM campaigns WHERE id = ?: the result set, <<row>> or <<>>
\* (id is the primary key).  fetchone() is its row, or None when it is empty.
FetchCampaign(rows, id) ==
  IF \E k \in 1..Len(rows) : rows[k].id = PNum(id * Tenths)
  THEN <<rows[CHOOSE k \in 1..Len(rows) : rows[k].id = PNum(id * Tenths)]>>
  ELSE <<>>

\* The loop's first three statements: the list columns of a fetched row
\* replaced by their normal form.
NormalizeRow(d) ==
  [k \in DOMAIN d |-> IF k \in ListKeys THEN deserialize_list(Get(d, k)) ELSE d[k]]

\* DesignerOut(id=d["id"], ..., performance_score=d.get("performance_score") or 0.0)
DesignerOut(d) ==
  [k \in DesignerKeys \cup {"id"} |->
     IF k = "performance_score"
     THEN (IF Truthy(Get(d, k)) THEN d[k] ELSE PNum(0))
     ELSE d[k]]

\* Whether the model DesignerOut accepts the fields.
ValidDesignerOut(out) ==
  /\ \A k \in {"id", "rate_tier", "game_logic_experience", "performance_score"} : out[k].t = "num"
  /\ \A k \in {"name", "availability"} : out[k].t = "str"
  /\ \A k \in ListKeys : IsStrList(out[k])

\* Faulty variant: score > match_request.threshold
MeetsThresholdStrict(sc, threshold) == sc.n > threshold

\* score >= match_request.threshold
MeetsThreshold(sc, threshold) == sc.n >= threshold

\* Faulty variant: an ascending sort, reversed; entries of equal score end up
\* in reverse order.
InsertByScoreReversed(sorted, entry) ==
  LET ahead == Cardinality({k \in 1..Len(sorted) : sorted[k].score > entry.score}) IN
  SubSeq(sorted, 1, ahead) \o <<entry>> \o SubSeq(sorted, ahead + 1, Len(sorted))

\* list.sort(key=lambda sd: sd.score, reverse=True): descending, and stable.
\* An entry goes after the entries already placed whose score is not less.
InsertByScore(sorted, entry) ==
  LET ahead == Cardinality({k \in 1..Len(sorted) : sorted[k].score >= entry.score}) IN
  SubSeq(sorted, 1, ahead) \o <<entry>> \o SubSeq(sorted, ahead + 1, Len(sorted))

RECURSIVE SortByScoreDesc(_)
SortByScoreDesc(entries) ==
  IF entries = <<>> THEN <<>>
  ELSE InsertByScore(SortByScoreDesc(SubSeq(entries, 1, Len(entries) - 1)),
                     entries[Len(entries)])

\* The entries the loop appends for rows k..Len(rows), in row order.
RECURSIVE ScoredFrom(_, _, _, _)
ScoredFrom(rows, scores, threshold, k) ==
  IF k > Len(rows) THEN <<>>
  ELSE (IF MeetsThreshold(scores[k], threshold)
        THEN <<[designer |-> DesignerOut(rows[k]), score |-> scores[k].n]>>
        ELSE <<>>) \o ScoredFrom(rows, scores, threshold, k + 1)

\* What a match computes and answers.
MatchReply(campaign_id, threshold) ==
  LET fetched == FetchCampaign(campaigns, campaign_id) IN
  IF fetched = <<>>  \* not campaign: None; a row is a non-empty dict
  THEN /\ response' = [status |-> 404, body |-> <<>>]
       /\ UNCHANGED computed
  ELSE \E rows \in {[k \in 1..Len(designers) |-> NormalizeRow(designers[k])]} :
       \E scores \in {[k \in 1..Len(rows) |-> calculate_match_score(fetched[1], rows[k])]} :
       LET \* the rows at which the loop raises
           failing == {k \in 1..Len(rows) :
                         \/ IsRaised(scores[k])
                         \/ /\ MeetsThreshold(scores[k], threshold)
                            /\ ~ValidDesignerOut(DesignerOut(rows[k]))}
           reached == IF failing = {} THEN Len(rows)
                      ELSE CHOOSE k \in failing : \A j \in failing : k <= j
       IN
       /\ computed' = [campaign |-> campaign_id, scores |-> SubSeq(scores, 1, reached)]
       /\ response' =
            IF failing # {} THEN [status |-> 500, body |-> <<>>]
            ELSE [status |-> 200,
                  body |-> SortByScoreDesc(ScoredFrom(rows, scores, threshold, 1))]

\* Faulty variant: the normalized rows written back to the table.
match_designers_writeback(campaign_id, threshold) ==
  /\ request' = [campaign_id |-> campaign_id, threshold |-> threshold]
  /\ pc' = "match_designers"
  /\ MatchReply(campaign_id, threshold)
  /\ designers' = [k \in 1..Len(designers) |-> NormalizeRow(designers[k])]
  /\ UNCHANGED <<campaigns, submitted, codecVars, scorerVars>>

match_designers(campaign_id, threshold) ==
  /\ request' = [campaign_id |-> campaign_id, threshold |-> threshold]
  /\ pc' = "match_designers"
  /\ MatchReply(campaign_id, threshold)
  /\ UNCHANGED <<campaigns, designers, submitted, codecVars, scorerVars>>

InitService ==
  /\ pc = "startup"
  /\ CodecIdle /\ ScorerIdle /\ ServiceIdle

Next ==
  \/ \E payload \in CampaignPayloads : create_campaign(payload)
  \/ \E payload \in DesignerPayloads : create_designer(payload)
  \/ \E campaign_id \in 1..(MaxCampaigns + 1), threshold \in Thresholds :
       match_designers(campaign_id, threshold)

Init == InitService

Spec == Init /\ [][Next]_vars

(***************************************************************************)
(* Properties of the service                                               *)
(***************************************************************************)
Matched == pc = "match_designers"
\* The campaign_id of the last request names a stored campaign.
KnownCampaign == request.campaign_id \in 1..Len(campaigns)
IdOf(k) == PNum(k * Tenths)

\* The designer of row k as it would be with its lists passed natively.
NativeDesigner(k) ==
  [key \in DesignerKeys |->
     IF key \in ListKeys THEN submitted[k][key] ELSE designers[k][key]]

\* C5: a match fails exactly when its campaign_id names no stored campaign,
\* and then with 404; for a stored campaign it answers 200 with a sequence,
\* empty when there is no designer or none reaches the threshold.
C5_NotFoundOnlyForUnknownCampaign ==
  Matched =>
    /\ response.status = 404 <=> ~KnownCampaign
    /\ KnownCampaign => response.status = 200
    /\ (KnownCampaign /\ designers = <<>>) => response.body = <<>>

\* C6: when a match returns a result, a designer is in it exactly when its
\* score is >= threshold, at most once, and with the score
\* calculate_match_score gives it.
C6_ResultIsThoseAtOrAboveThreshold ==
  (Matched /\ response.status = 200) =>
    /\ \A i \in 1..Len(response.body) :
         response.body[i].designer.id \in {IdOf(k) : k \in 1..Len(designers)}
    /\ \A k \in 1..Len(designers) :
         LET sc == calculate_match_score(campaigns[request.campaign_id], designers[k])
             at == {i \in 1..Len(response.body) : response.body[i].designer.id = IdOf(k)}
         IN /\ at # {} <=> sc.n >= request.threshold
            /\ Cardinality(at) <= 1
            /\ \A i \in at : response.body[i].score = sc.n

\* C6 witness: a result holding a designer that scores exactly the
\* threshold and leaving out a designer that scores less.
C6_Witness ==
  /\ Matched /\ response.status = 200
  /\ \E i \in 1..Len(response.body) : response.body[i].score = request.threshold
  /\ Len(response.body) < Len(designers)

\* C7: the result is in descending order of score, and designers of equal
\* score are in the order of the table.
C7_DescendingAndStable ==
  (Matched /\ response.status = 200) =>
    \A i, j \in 1..Len(response.body) :
      i < j =>
        /\ response.body[i].score >= response.body[j].score
        /\ response.body[i].score = response.body[j].score
             => response.body[i].designer.id.n < response.body[j].designer.id.n

\* C7 witness: a result of two designers with equal scores.
C7_Witness ==
  /\ Matched /\ response.status = 200 /\ Len(response.body) = 2
  /\ response.body[1].score = response.body[2].score

\* C9: a registered designer's stored lists normalize to the lists that
\* were submitted, and the designer scores, stored as text, what it scores
\* with the submitted lists passed natively; so does the match.
C9_SerializedScoresAsNative ==
  /\ \A k \in 1..Len(designers) :
       /\ \A key \in ListKeys :
            /\ designers[k][key].t = "str"
            /\ IsStrList(submitted[k][key])
            /\ deserialize_list(designers[k][key]) = submitted[k][key]
       /\ \A c \in 1..Len(campaigns) :
            calculate_match_score(campaigns[c], designers[k])
              = calculate_match_score(campaigns[c], NativeDesigner(k))
  /\ (Matched /\ KnownCampaign) =>
       \A k \in 1..Len(computed.scores) :
         computed.scores[k]
           = calculate_match_score(campaigns[request.campaign_id], NativeDesigner(k))

\* C9 witness: a designer registered with tags that hold a quote, a
\* backslash and a comma, matched by a campaign asking for them: 99.0.
C9_Witness ==
  /\ Matched /\ response.status = 200
  /\ \E k \in 1..Len(designers) :
       /\ submitted[k].scene_tags = TagsQuoted
       /\ campaigns[request.campaign_id].ambiance = PStr(<<Backslash>>)
       /\ computed.scores[k] = PNum(99 * Tenths)

IsPrefix(a, b) == Len(a) <= Len(b) /\ SubSeq(b, 1, Len(a)) = a

\* The fields a campaign row took from its payload.
FieldsOf(row) == [k \in CampaignKeys |-> row[k]]

\* C10: no request changes or removes a stored record, a match changes no
\* table at all, and the score a match computes for a campaign and a
\* designer is the score of their field values with the lists as submitted,
\* the same as in the preceding match of that campaign.
C10_Step ==
  /\ IsPrefix(campaigns, campaigns') /\ IsPrefix(designers, designers')
  /\ pc' = "match_designers" =>
       /\ campaigns' = campaigns /\ designers' = designers
       /\ request'.campaign_id \in 1..Len(campaigns) =>
            \A k \in 1..Len(computed'.scores) :
              computed'.scores[k]
                = calculate_match_score(FieldsOf(campaigns[request'.campaign_id]),
                                        NativeDesigner(k))
       /\ computed'.campaign = computed.campaign =>
            \A k \in DOMAIN computed.scores \cap DOMAIN computed'.scores :
              computed'.scores[k] = computed.scores[k]

C10_MatchLeavesStoreAndScores == [][C10_Step]_vars

\* C10 witness: a match of a stored campaign that scored two designers and
\* returned some of them.
C10_Witness ==
  /\ Matched /\ response.status = 200
  /\ Len(computed.scores) >= 2
  /\ response.body # <<>>

====
